---- MODULE Spec2Model ----
(***************************************************************************)
(* Model of matrix-bot.py: the MatrixChatManager session lifecycle (login, *)
(* sync, get_room_info, get_room_members, get_user_chats, logout), the     *)
(* top-level flow main(), and the room projection done in the loop body of *)
(* get_user_chats (state-event fold, reverse timeline scan, truncation,    *)
(* member precedence).                                                     *)
(*                                                                         *)
(* Python values are modelled as follows.  None is the string None.  A     *)
(* value is falsy when it is None or the empty string.  Message bodies are *)
(* sequences of code points, because the code slices and measures them;    *)
(* names, topics, aliases, tokens and identifiers are opaque strings.      *)
(* A dict lookup d.get(key, default) is a record [present, val]: the key   *)
(* may be missing.  The Cyrillic literals of the source are written        *)
(* transliterated (opaque ones) or as their code points (last_message).    *)
(***************************************************************************)
EXTENDS Integers, Sequences, FiniteSets, TLC

VARIABLES
    access_token,   \* self.access_token
    user_id,        \* self.user_id
    device_id,      \* self.device_id
    session,        \* self.session: None, "open" or "closed" (ClientSession.closed)
    opened,         \* number of aiohttp.ClientSession objects created so far
    closes,         \* number of ClientSession.close() calls made so far
    last,           \* the last completed call: operation, token before it, result, requests sent
    mainpc,         \* position of main(); "api" when the manager is driven call by call
    room,           \* projection: the room fragment being reduced
    resolved,       \* projection: response of the members endpoint for that room
    ppc,            \* projection: position in the loop body of get_user_chats
    acc,            \* projection: room_name, room_topic, room_alias, is_encrypted, member_count
    idx,            \* projection: number of state events folded so far
    tpos,           \* projection: number of timeline events not yet examined by the reverse scan
    last_message,   \* projection: last_message
    room_info,      \* projection: the summary appended to rooms
    gpc,            \* glpi-bot: position of main(); "api" when its functions are called one by one
    session_token,  \* glpi-bot: session_token of main()
    categories,     \* glpi-bot: categories of main()
    sent,           \* glpi-bot: the HTTP requests sent so far
    glast           \* glpi-bot: the last completed call, its arguments, response and result

mgr == <<access_token, user_id, device_id, session, opened, closes>>
proj == <<room, resolved, ppc, acc, idx, tpos, last_message, room_info>>
matrix == <<access_token, user_id, device_id, session, opened, closes, last, mainpc,
            room, resolved, ppc, acc, idx, tpos, last_message, room_info>>
glpi == <<gpc, session_token, categories, sent, glast>>
vars == <<access_token, user_id, device_id, session, opened, closes, last, mainpc,
          room, resolved, ppc, acc, idx, tpos, last_message, room_info,
          gpc, session_token, categories, sent, glast>>

----------------------------------------------------------------------------
(* Bounds of the model *)

MaxSessions == 2
MaxRooms == 2
MaxStateEvents == 3
MaxTimeline == 3
MaxMembers == 12
MaxSent == 2

(* Program constants *)

BodyLimit == 100
MembersPreview == 10

----------------------------------------------------------------------------
(* Python values *)

None == "None"

Falsy(v) == v = None \/ v = ""

\* dict.get(key, default) on a lookup [present, val]
Get(lookup, default) == IF lookup.present THEN lookup.val ELSE default

Missing == [present |-> FALSE, val |-> None]
Has(v) == [present |-> TRUE, val |-> v]

----------------------------------------------------------------------------
(* Events, room fragments and server responses *)

\* An event of the sync payload.  content is the lookup of the one key the
\* code reads for that type (name, topic, alias, body).
Event(type, content) == [type |-> type, content |-> content]

\* A message body of n code points (lower-case letters, shifted by c)
Body(n, c) == [i \in 1..n |-> 97 + ((i + c) % 26)]

Fragment(room_id, state, timeline) ==
    [room_id |-> room_id, state |-> state, timeline |-> timeline]

RoomIds == {"!a:hs", "!b:hs", "!d:hs"}

\* A body that is not a string (a JSON number or null): len(body) raises on it.
\* No code point is negative.
NonStringBody == <<-1>>

\* What the server holds for each room when the manager is driven call by call
FragmentOf(room_id) ==
    IF room_id = "!a:hs" THEN
        Fragment(room_id,
                 <<Event("m.room.name", Has("Ops")), Event("m.room.member", Missing),
                   Event("m.room.topic", Has("Infra")), Event("m.room.name", Has("Ops-2"))>>,
                 <<Event("m.room.message", Has(Body(2, 0))),
                   Event("m.room.message", Has(Body(BodyLimit + 20, 1)))>>)
    ELSE IF room_id = "!b:hs" THEN
        Fragment(room_id,
                 <<Event("m.room.encryption", Missing), Event("m.room.member", Missing),
                   Event("m.room.member", Missing)>>,
                 <<Event("m.room.message", Has(Body(3, 2))), Event("m.reaction", Missing)>>)
    ELSE
        Fragment(room_id,
                 <<Event("m.room.name", Has("Lab")), Event("m.room.member", Missing)>>,
                 <<Event("m.room.message", Has(Body(2, 0))),
                   Event("m.room.message", Has(NonStringBody))>>)

\* Sequences without repetition of at most n elements of S
RECURSIVE InjSeqs(_, _)
InjSeqs(S, n) ==
    IF n = 0 THEN {<<>>}
    ELSE LET shorter == InjSeqs(S, n - 1)
         IN  shorter \cup
             {q \in {Append(p, e) : p \in shorter, e \in S} :
                Len(q) = n /\ \A i, j \in 1..n : i # j => q[i] # q[j]}

\* The JSON body of a 200 sync response: an empty dict, or a dict with rooms.join
Payload(ids) == [empty |-> FALSE, join |-> [i \in 1..Len(ids) |-> FragmentOf(ids[i])]]
EmptyDict == [empty |-> TRUE, join |-> <<>>]
Payloads == {EmptyDict} \cup {Payload(ids) : ids \in InjSeqs(RoomIds, MaxRooms)}

\* A record of the members endpoint
Member(displayname, state_key) == [displayname |-> displayname, state_key |-> state_key]

Ok(body) == [kind |-> "ok", body |-> body]                \* status 200, JSON body
HttpError == [kind |-> "http_error"]                      \* status other than 200
TransportError == [kind |-> "exception"]                  \* the request raises
Malformed == [kind |-> "malformed"]                       \* status 200, body not a JSON object

LoginData(token, uid, did) == [access_token |-> token, user_id |-> uid, device_id |-> did]

LoginResponses ==
    {Ok(LoginData("syt_A", "@alice:hs", "DEV1")),
     Ok(LoginData("syt_B", "@bob:hs", None)),
     Ok(LoginData(None, None, None)),
     Ok(LoginData("", "@alice:hs", "DEV1")),
     HttpError, TransportError, Malformed}

SyncResponses == {Ok(p) : p \in Payloads} \cup {HttpError, TransportError, Malformed}

InfoResponses == {Ok("state"), HttpError, TransportError}

MemberResponses ==
    {Ok(<<Member("Alice", "@alice:hs"), Member(None, "@bob:hs")>>),
     Ok(<<>>), HttpError, TransportError}

LogoutResponses == {Ok(None), HttpError, TransportError}

----------------------------------------------------------------------------
(* The room projection: the loop body of get_user_chats *)

DefaultName == "Bez nazvaniya"
DefaultTopic == "Net opisaniya"
DefaultAlias == "Net aliasa"
\* The thirteen code points of the source's default last_message
DefaultLastMessage ==
    <<1053, 1077, 1090, 32, 1089, 1086, 1086, 1073, 1097, 1077, 1085, 1080, 1081>>
\* "..."
Marker == <<46, 46, 46>>

\* The accumulators before the fold over the state events
InitAcc ==
    [room_name |-> DefaultName, room_topic |-> DefaultTopic, room_alias |-> DefaultAlias,
     is_encrypted |-> FALSE, member_count |-> 0]

\* The iteration as it would be if a name, once set, were kept (first write wins)
StateEventStepFirstWins(a, event) ==
    IF event.type = "m.room.name" THEN
        [a EXCEPT !.room_name =
            IF a.room_name = DefaultName THEN Get(event.content, a.room_name) ELSE a.room_name]
    ELSE IF event.type = "m.room.topic" THEN
        [a EXCEPT !.room_topic = Get(event.content, a.room_topic)]
    ELSE IF event.type = "m.room.canonical_alias" THEN
        [a EXCEPT !.room_alias = Get(event.content, a.room_alias)]
    ELSE IF event.type = "m.room.encryption" THEN
        [a EXCEPT !.is_encrypted = TRUE]
    ELSE IF event.type = "m.room.member" THEN
        [a EXCEPT !.member_count = a.member_count + 1]
    ELSE a

\* The iteration as it would be if the flag were assigned from each event's type
StateEventStepFlagFromEvent(a, event) ==
    IF event.type = "m.room.name" THEN
        [a EXCEPT !.room_name = Get(event.content, a.room_name), !.is_encrypted = FALSE]
    ELSE IF event.type = "m.room.topic" THEN
        [a EXCEPT !.room_topic = Get(event.content, a.room_topic), !.is_encrypted = FALSE]
    ELSE IF event.type = "m.room.canonical_alias" THEN
        [a EXCEPT !.room_alias = Get(event.content, a.room_alias), !.is_encrypted = FALSE]
    ELSE IF event.type = "m.room.encryption" THEN
        [a EXCEPT !.is_encrypted = TRUE]
    ELSE IF event.type = "m.room.member" THEN
        [a EXCEPT !.member_count = a.member_count + 1, !.is_encrypted = FALSE]
    ELSE [a EXCEPT !.is_encrypted = FALSE]

\* One iteration of the loop over state_events
StateEventStep(a, event) ==
    IF event.type = "m.room.name" THEN
        [a EXCEPT !.room_name = Get(event.content, a.room_name)]
    ELSE IF event.type = "m.room.topic" THEN
        [a EXCEPT !.room_topic = Get(event.content, a.room_topic)]
    ELSE IF event.type = "m.room.canonical_alias" THEN
        [a EXCEPT !.room_alias = Get(event.content, a.room_alias)]
    ELSE IF event.type = "m.room.encryption" THEN
        [a EXCEPT !.is_encrypted = TRUE]
    ELSE IF event.type = "m.room.member" THEN
        [a EXCEPT !.member_count = a.member_count + 1]
    ELSE a

\* The whole loop over state_events, from event i on
RECURSIVE FoldStateEvents(_, _, _)
FoldStateEvents(a, events, i) ==
    IF i > Len(events) THEN a
    ELSE FoldStateEvents(StateEventStep(a, events[i]), events, i + 1)

\* The truncation as it would be with >= in place of >
TruncateOffByOne(body) ==
    IF Len(body) >= BodyLimit THEN SubSeq(body, 1, BodyLimit) \o Marker ELSE body

\* body[:100] + "..." if len(body) > 100 else body
Truncate(body) ==
    IF Len(body) > BodyLimit THEN SubSeq(body, 1, BodyLimit) \o Marker ELSE body

\* The iteration as it would be without the break
TimelineStepNoBreak(lm, event) ==
    IF event.type = "m.room.message" /\ event.content.present
    THEN [last_message |-> Truncate(event.content.val), brk |-> FALSE]
    ELSE [last_message |-> lm, brk |-> FALSE]

\* One iteration of the loop over reversed(timeline_events): the new
\* last_message and whether the loop breaks
TimelineStep(lm, event) ==
    IF event.type = "m.room.message" /\ event.content.present
    THEN [last_message |-> Truncate(event.content.val), brk |-> TRUE]
    ELSE [last_message |-> lm, brk |-> FALSE]

\* The whole reverse scan, with the n first events still to examine
RECURSIVE ScanTimeline(_, _, _)
ScanTimeline(lm, events, n) ==
    IF n = 0 THEN lm
    ELSE LET s == TimelineStep(lm, events[n])
         IN  IF s.brk THEN s.last_message ELSE ScanTimeline(s.last_message, events, n - 1)

\* The list get_room_members builds from a response (the token is present)
MembersOf(resp) ==
    IF resp.kind = "ok"
    THEN [i \in 1..Len(resp.body) |->
            IF ~Falsy(resp.body[i].displayname) THEN resp.body[i].displayname
            ELSE resp.body[i].state_key]
    ELSE <<>>

Min(a, b) == IF a < b THEN a ELSE b

\* The room_info dict as it would be if member_count were taken from the preview
RoomInfoCountsPreview(room_id, a, lm, members) ==
    [room_id |-> room_id,
     name |-> a.room_name,
     canonical_alias |-> a.room_alias,
     member_count |-> IF Len(members) > 0 THEN Min(MembersPreview, Len(members))
                      ELSE a.member_count,
     is_encrypted |-> a.is_encrypted,
     topic |-> a.room_topic,
     last_message |-> lm,
     members |-> IF Len(members) > 0 THEN SubSeq(members, 1, Min(MembersPreview, Len(members)))
                 ELSE <<>>]

\* members[:10] if members else [], and the room_info dict
RoomInfo(room_id, a, lm, members) ==
    [room_id |-> room_id,
     name |-> a.room_name,
     canonical_alias |-> a.room_alias,
     member_count |-> IF Len(members) > 0 THEN Len(members) ELSE a.member_count,
     is_encrypted |-> a.is_encrypted,
     topic |-> a.room_topic,
     last_message |-> lm,
     members |-> IF Len(members) > 0 THEN SubSeq(members, 1, Min(MembersPreview, Len(members)))
                 ELSE <<>>]

\* Whether the reverse scan raises: the first message-type event with a body
\* that it meets has a body that is not a string
RECURSIVE ScanRaises(_, _)
ScanRaises(events, n) ==
    IF n = 0 THEN FALSE
    ELSE IF events[n].type = "m.room.message" /\ events[n].content.present
         THEN events[n].content.val = NonStringBody
         ELSE ScanRaises(events, n - 1)

\* Whether one pass of the loop over joined_rooms raises
ProjectRaises(fragment) == ScanRaises(fragment.timeline, Len(fragment.timeline))

\* One pass of the loop over joined_rooms
Project(fragment, resp) ==
    RoomInfo(fragment.room_id,
             FoldStateEvents(InitAcc, fragment.state, 1),
             ScanTimeline(DefaultLastMessage, fragment.timeline, Len(fragment.timeline)),
             MembersOf(resp))

----------------------------------------------------------------------------
(* The manager *)

\* _get_session creates a ClientSession when there is none or it is closed.
\* The number of sessions a run may create is bounded.
CanGetSession == session = "open" \/ opened < MaxSessions
OpenedAfterGet == IF session = "open" THEN opened ELSE opened + 1

\* What a call did: the token it found, the outcome of its first request
\* ("none" when it sent no request), what it returned, the requests it sent
\* and whether an exception left it
Call(op, outcome, result, requests) ==
    [op |-> op, token_before |-> access_token, outcome |-> outcome, result |-> result,
     requests |-> requests, raised |-> FALSE]

\* Login as it would be if the response body were taken before the status check
LoginAssignsBeforeStatus(resp) ==
    /\ CanGetSession
    /\ session' = "open"
    /\ opened' = OpenedAfterGet
    /\ closes' = closes
    /\ IF resp.kind = "ok"
       THEN /\ access_token' = resp.body.access_token
            /\ user_id' = resp.body.user_id
            /\ device_id' = resp.body.device_id
            /\ last' = Call("login", resp.kind, TRUE, 1)
       ELSE /\ access_token' = None
            /\ user_id' = None
            /\ device_id' = None
            /\ last' = Call("login", resp.kind, FALSE, 1)

\* login: one POST; only a 200 response with a JSON object assigns the fields
Login(resp) ==
    /\ CanGetSession
    /\ session' = "open"
    /\ opened' = OpenedAfterGet
    /\ closes' = closes
    /\ IF resp.kind = "ok"
       THEN /\ access_token' = resp.body.access_token
            /\ user_id' = resp.body.user_id
            /\ device_id' = resp.body.device_id
            /\ last' = Call("login", resp.kind, TRUE, 1)
       ELSE /\ UNCHANGED <<access_token, user_id, device_id>>
            /\ last' = Call("login", resp.kind, FALSE, 1)

\* sync as it would be without the token check
SyncNoGate(resp) ==
    /\ CanGetSession
    /\ session' = "open"
    /\ opened' = OpenedAfterGet
    /\ last' = Call("sync", resp.kind, IF resp.kind = "ok" THEN resp.body ELSE None, 1)
    /\ UNCHANGED <<access_token, user_id, device_id, closes>>

\* sync: None without a token, else one GET
Sync(resp) ==
    IF Falsy(access_token)
    THEN /\ last' = Call("sync", "none", None, 0)
         /\ UNCHANGED mgr
    ELSE /\ CanGetSession
         /\ session' = "open"
         /\ opened' = OpenedAfterGet
         /\ last' = Call("sync", resp.kind, IF resp.kind = "ok" THEN resp.body ELSE None, 1)
         /\ UNCHANGED <<access_token, user_id, device_id, closes>>

\* get_room_info: None without a token, else one GET
GetRoomInfo(resp) ==
    IF Falsy(access_token)
    THEN /\ last' = Call("get_room_info", "none", None, 0)
         /\ UNCHANGED mgr
    ELSE /\ CanGetSession
         /\ session' = "open"
         /\ opened' = OpenedAfterGet
         /\ last' = Call("get_room_info", resp.kind, IF resp.kind = "ok" THEN resp.body ELSE None, 1)
         /\ UNCHANGED <<access_token, user_id, device_id, closes>>

\* get_room_members: [] without a token, else one GET
GetRoomMembers(resp) ==
    IF Falsy(access_token)
    THEN /\ last' = Call("get_room_members", "none", <<>>, 0)
         /\ UNCHANGED mgr
    ELSE /\ CanGetSession
         /\ session' = "open"
         /\ opened' = OpenedAfterGet
         /\ last' = Call("get_room_members", resp.kind, MembersOf(resp), 1)
         /\ UNCHANGED <<access_token, user_id, device_id, closes>>

\* What a call of get_user_chats did, with the responses the server had
\* for its sync request and for the members request of each room
ChatsCall(outcome, result, requests, sresp, mresp) ==
    [op |-> "get_user_chats", token_before |-> access_token, outcome |-> outcome,
     result |-> result, requests |-> requests, raised |-> FALSE,
     sresp |-> sresp, mresp |-> mresp]

\* The rooms of a sync response, in the order of joined_rooms.items()
JoinedRooms(sresp) == IF sresp.kind = "ok" THEN sresp.body.join ELSE <<>>

\* The first pass of the loop that raises, 0 when none does
FirstRaising(joined_rooms) ==
    LET raising == {i \in 1..Len(joined_rooms) : ProjectRaises(joined_rooms[i])}
    IN  IF raising = {} THEN 0 ELSE CHOOSE i \in raising : \A j \in raising : i <= j

\* get_user_chats as it would be if the except clause returned the rooms built so far
GetUserChatsReturnsPartial(sresp, mresp) ==
    IF Falsy(access_token)
    THEN /\ last' = ChatsCall("none", <<>>, 0, None, <<>>)
         /\ UNCHANGED mgr
    ELSE /\ CanGetSession
         /\ session' = "open"
         /\ opened' = OpenedAfterGet
         /\ UNCHANGED <<access_token, user_id, device_id, closes>>
         /\ IF sresp.kind # "ok" \/ sresp.body.empty
            THEN last' = ChatsCall(sresp.kind, <<>>, 1, sresp, mresp)
            ELSE LET joined_rooms == sresp.body.join
                     k == FirstRaising(joined_rooms)
                     n == IF k > 0 THEN k - 1 ELSE Len(joined_rooms)
                 IN  last' = ChatsCall(sresp.kind,
                                       [i \in 1..n |-> Project(joined_rooms[i], mresp[i])],
                                       1 + n, sresp, mresp)

\* get_user_chats as it would be if get_room_members let its failures out
GetUserChatsMemberFailureAborts(sresp, mresp) ==
    IF Falsy(access_token)
    THEN /\ last' = ChatsCall("none", <<>>, 0, None, <<>>)
         /\ UNCHANGED mgr
    ELSE /\ CanGetSession
         /\ session' = "open"
         /\ opened' = OpenedAfterGet
         /\ UNCHANGED <<access_token, user_id, device_id, closes>>
         /\ IF sresp.kind # "ok" \/ sresp.body.empty
            THEN last' = ChatsCall(sresp.kind, <<>>, 1, sresp, mresp)
            ELSE LET joined_rooms == sresp.body.join
                     k == FirstRaising(joined_rooms)
                     failing == {i \in 1..Len(joined_rooms) : mresp[i].kind # "ok"}
                 IN  IF k > 0
                     THEN last' = ChatsCall(sresp.kind, <<>>, k, sresp, mresp)
                     ELSE IF failing # {}
                     THEN last' = ChatsCall(sresp.kind, <<>>,
                                            1 + (CHOOSE i \in failing : \A j \in failing : i <= j),
                                            sresp, mresp)
                     ELSE last' = ChatsCall(sresp.kind,
                                            [i \in 1..Len(joined_rooms) |->
                                                Project(joined_rooms[i], mresp[i])],
                                            1 + Len(joined_rooms), sresp, mresp)

\* get_user_chats: [] without a token or without sync data; else one summary
\* per joined room, each with one call of get_room_members; a pass of the
\* loop that raises ends the call in the except clause, which returns [].
\* mresp[i] is the response of the members endpoint for the i-th room; the
\* pass that raises does so before its members request.
GetUserChats(sresp, mresp) ==
    IF Falsy(access_token)
    THEN /\ last' = ChatsCall("none", <<>>, 0, None, <<>>)
         /\ UNCHANGED mgr
    ELSE /\ CanGetSession
         /\ session' = "open"
         /\ opened' = OpenedAfterGet
         /\ UNCHANGED <<access_token, user_id, device_id, closes>>
         /\ IF sresp.kind # "ok" \/ sresp.body.empty
            THEN last' = ChatsCall(sresp.kind, <<>>, 1, sresp, mresp)
            ELSE LET joined_rooms == sresp.body.join
                     k == FirstRaising(joined_rooms)
                 IN  IF k > 0
                     THEN last' = ChatsCall(sresp.kind, <<>>, k, sresp, mresp)
                     ELSE last' = ChatsCall(sresp.kind,
                                            [i \in 1..Len(joined_rooms) |->
                                                Project(joined_rooms[i], mresp[i])],
                                            1 + Len(joined_rooms), sresp, mresp)

\* logout as it would be with the cleanup inside the try block instead of a
\* finally block: a request that raises skips it
LogoutNoFinally(resp) ==
    IF Falsy(access_token)
    THEN /\ last' = Call("logout", "none", None, 0)
         /\ UNCHANGED mgr
    ELSE /\ CanGetSession
         /\ opened' = OpenedAfterGet
         /\ IF resp.kind = "exception"
            THEN /\ session' = "open"
                 /\ UNCHANGED <<access_token, user_id, device_id, closes>>
            ELSE /\ access_token' = None
                 /\ user_id' = None
                 /\ device_id' = None
                 /\ session' = "closed"
                 /\ closes' = closes + 1
         /\ last' = Call("logout", resp.kind, None, 1)

\* logout: nothing without a token; else one POST, and the finally block
\* clears the fields and closes the session whatever the POST did
Logout(resp) ==
    IF Falsy(access_token)
    THEN /\ last' = Call("logout", "none", None, 0)
         /\ UNCHANGED mgr
    ELSE /\ CanGetSession
         /\ opened' = OpenedAfterGet
         /\ access_token' = None
         /\ user_id' = None
         /\ device_id' = None
         /\ session' = "closed"
         /\ closes' = closes + 1
         /\ last' = Call("logout", resp.kind, None, 1)

----------------------------------------------------------------------------
(* glpi-bot.py: the functions *)

\* CONFIG of main()
BaseUrl == "https://help.it-teacher.pro"
AppToken == "app_token"

\* A response of the GLPI server: its status code and what response.json()
\* gives: a JSON object, a JSON array of n objects, or an exception
HttpResponse(status_code, shape, n, token) ==
    [kind |-> "response", status_code |-> status_code, shape |-> shape, n |-> n,
     session_token |-> token]

\* requests.get / requests.post raises
RequestFails == [kind |-> "exception", status_code |-> 0, shape |-> "invalid", n |-> 0,
                 session_token |-> None]

InitSessionResponses ==
    {HttpResponse(200, "object", 0, "s1"), HttpResponse(200, "object", 0, "s2"),
     HttpResponse(200, "object", 0, None), HttpResponse(200, "invalid", 0, None),
     HttpResponse(401, "object", 0, None), RequestFails}

KillSessionResponses == {HttpResponse(200, "object", 0, None), HttpResponse(401, "object", 0, None),
                         RequestFails}

TicketResponses ==
    {HttpResponse(201, "object", 0, None), HttpResponse(201, "invalid", 0, None),
     HttpResponse(201, "array", 1, None), HttpResponse(200, "object", 0, None),
     HttpResponse(400, "array", 1, None), RequestFails}

ListResponses ==
    {HttpResponse(200, "array", 2, None), HttpResponse(200, "array", 0, None),
     HttpResponse(200, "object", 1, None), HttpResponse(200, "invalid", 0, None),
     HttpResponse(401, "array", 1, None), RequestFails}

\* ticket_data: which of the required keys it has
TicketData(has_name, has_content) == [has_name |-> has_name, has_content |-> has_content]
TicketDatas == {TicketData(n, c) : n, c \in BOOLEAN}

\* What response.json() of a list or ticket request gives: its shape and length
Json(shape, n) == [shape |-> shape, n |-> n]
NoJson == Json("none", 0)       \* None
EmptyList == Json("array", 0)   \* []

Request(method, endpoint, token) ==
    [method |-> method, endpoint |-> endpoint, base_url |-> BaseUrl, app_token |-> AppToken,
     session_token |-> token]

\* What a call did: its arguments, the response the server had for it, the
\* result, the requests it sent and whether an exception left it
GlpiCall(op, args, resp, result, requests, raised) ==
    [op |-> op, args |-> args, resp |-> resp, result |-> result, sent |-> requests,
     raised |-> raised]

\* init_glpi_session: the session_token of a 200 response, else None
InitSessionResult(resp) ==
    IF resp.kind = "response" /\ resp.status_code = 200 /\ resp.shape = "object"
    THEN resp.session_token
    ELSE None

\* init_glpi_session: one GET
InitGlpiSession(resp) ==
    LET request == Request("GET", "initSession", None)
    IN  /\ glast' = GlpiCall("init_glpi_session", <<>>, resp, InitSessionResult(resp),
                             <<request>>, FALSE)
        /\ sent' = Append(sent, request)

\* kill_glpi_session(base_url, app_token, session_token): one GET, True on 200.
\* A call that does not give the three arguments raises TypeError before
\* the body runs.
KillGlpiSession(args, resp) ==
    IF Len(args) # 3
    THEN /\ glast' = GlpiCall("kill_glpi_session", args, resp, FALSE, <<>>, TRUE)
         /\ sent' = sent
    ELSE LET request == [Request("GET", "killSession", args[3]) EXCEPT
                             !.base_url = args[1], !.app_token = args[2]]
         IN  /\ glast' = GlpiCall("kill_glpi_session", args, resp,
                                  resp.kind = "response" /\ resp.status_code = 200,
                                  <<request>>, FALSE)
             /\ sent' = Append(sent, request)

\* The check of the required fields as it would be if it stopped after 'name'
HasRequiredFieldsNameOnly(ticket_data) == ticket_data.has_name

\* for field in required_fields: if field not in ticket_data: return None
HasRequiredFields(ticket_data) == ticket_data.has_name /\ ticket_data.has_content

\* The result of create_ticket once the POST is sent: the created ticket on
\* a 201 whose body is a JSON object, None otherwise
CreateTicketResult(resp) ==
    IF resp.kind = "response" /\ resp.status_code = 201 /\ resp.shape = "object"
    THEN Json(resp.shape, resp.n)
    ELSE NoJson

\* create_ticket: None and no request without the required fields, else one POST
CreateTicket(op, token, ticket_data, resp) ==
    IF ~HasRequiredFields(ticket_data)
    THEN /\ glast' = GlpiCall(op, ticket_data, resp, NoJson, <<>>, FALSE)
         /\ sent' = sent
    ELSE LET request == Request("POST", "Ticket", token)
         IN  /\ glast' = GlpiCall(op, ticket_data, resp, CreateTicketResult(resp),
                                  <<request>>, FALSE)
             /\ sent' = Append(sent, request)

\* create_ticket_simple: create_ticket on a dict built with name and content
CreateTicketSimple(token, resp) ==
    CreateTicket("create_ticket_simple", token, TicketData(TRUE, TRUE), resp)

\* get_categories and get_tickets: what response.json() gives on a 200, else []
ListResult(resp) ==
    IF resp.kind = "response" /\ resp.status_code = 200 /\ resp.shape # "invalid"
    THEN Json(resp.shape, resp.n)
    ELSE EmptyList

GetList(op, endpoint, token, resp) ==
    LET request == Request("GET", endpoint, token)
    IN  /\ glast' = GlpiCall(op, token, resp, ListResult(resp), <<request>>, FALSE)
        /\ sent' = Append(sent, request)

\* display_categories and display_tickets_simple raise on a non-empty value
\* that is not a list of objects: they call .get on each of its elements
DisplayRaises(list) == list.n > 0 /\ list.shape # "array"

\* The GLPI script not running
GlpiIdle ==
    /\ gpc = "idle"
    /\ session_token = None
    /\ categories = EmptyList
    /\ sent = <<>>
    /\ glast = GlpiCall("init", None, RequestFails, None, <<>>, FALSE)

----------------------------------------------------------------------------
(* The manager driven call by call *)

\* MatrixChatManager.__init__
InitMgr ==
    /\ access_token = None
    /\ user_id = None
    /\ device_id = None
    /\ session = None
    /\ opened = 0
    /\ closes = 0
    /\ last = [op |-> "init", token_before |-> None, outcome |-> "none", result |-> None,
               requests |-> 0, raised |-> FALSE]

\* No projection under way
ProjIdle ==
    /\ room = Fragment("!a:hs", <<>>, <<>>)
    /\ resolved = HttpError
    /\ ppc = "idle"
    /\ acc = InitAcc
    /\ idx = 0
    /\ tpos = 0
    /\ last_message = DefaultLastMessage
    /\ room_info = None

Init == InitMgr /\ mainpc = "api" /\ ProjIdle /\ GlpiIdle

CallLogin == \E resp \in LoginResponses : Login(resp) /\ UNCHANGED <<mainpc, proj, glpi>>

CallSync == \E resp \in SyncResponses : Sync(resp) /\ UNCHANGED <<mainpc, proj, glpi>>

CallGetRoomInfo == \E resp \in InfoResponses : GetRoomInfo(resp) /\ UNCHANGED <<mainpc, proj, glpi>>

CallGetRoomMembers ==
    \E resp \in MemberResponses : GetRoomMembers(resp) /\ UNCHANGED <<mainpc, proj, glpi>>

CallGetUserChats ==
    \E sresp \in SyncResponses :
        \E mresp \in [1..(IF sresp.kind = "ok" THEN Len(sresp.body.join) ELSE 0) -> MemberResponses] :
            GetUserChats(sresp, mresp) /\ UNCHANGED <<mainpc, proj, glpi>>

CallLogout == \E resp \in LogoutResponses : Logout(resp) /\ UNCHANGED <<mainpc, proj, glpi>>

Next ==
    \/ CallLogin
    \/ CallSync
    \/ CallGetRoomInfo
    \/ CallGetRoomMembers
    \/ CallGetUserChats
    \/ CallLogout

Spec == Init /\ [][Next]_vars

----------------------------------------------------------------------------
(* main(): login, get_user_chats, display and save, logout in the finally block *)

InitMain == InitMgr /\ mainpc = "login" /\ ProjIdle /\ GlpiIdle

\* login_success = await chat_manager.login(...); the early return on failure
MainLogin ==
    /\ mainpc = "login"
    /\ \E resp \in LoginResponses : Login(resp)
    /\ mainpc' = IF last'.result THEN "chats" ELSE "finally"
    /\ UNCHANGED <<proj, glpi>>

\* chats = await chat_manager.get_user_chats()
MainGetUserChats ==
    /\ mainpc = "chats"
    /\ \E sresp \in SyncResponses :
        \E mresp \in [1..(IF sresp.kind = "ok" THEN Len(sresp.body.join) ELSE 0) -> MemberResponses] :
            GetUserChats(sresp, mresp)
    /\ mainpc' = "display"
    /\ UNCHANGED <<proj, glpi>>

\* display_chats(chats) and, when chats is not empty, the dump to
\* matrix_chats.json, which may raise
MainDisplaySave ==
    /\ mainpc = "display"
    /\ \E file_ok \in BOOLEAN :
        mainpc' = IF Len(last.result) > 0 /\ ~file_ok THEN "finally_raising" ELSE "finally"
    /\ UNCHANGED <<mgr, last, proj, glpi>>

\* finally: await chat_manager.logout(); a pending exception then leaves main
MainFinally ==
    /\ mainpc \in {"finally", "finally_raising"}
    /\ \E resp \in LogoutResponses : Logout(resp)
    /\ mainpc' = IF mainpc = "finally" THEN "done" ELSE "raised"
    /\ UNCHANGED <<proj, glpi>>

NextMain ==
    \/ MainLogin
    \/ MainGetUserChats
    \/ MainDisplaySave
    \/ MainFinally

SpecMain == InitMain /\ [][NextMain]_vars

----------------------------------------------------------------------------
(* Session claims *)

AuthOps == {"sync", "get_room_info", "get_room_members", "get_user_chats", "logout"}

\* The result an authenticated operation gives without a token
FailureResult(op) == IF op \in {"get_room_members", "get_user_chats"} THEN <<>> ELSE None

\* C1: a call of sync, get_room_info, get_room_members, get_user_chats or
\* logout made while the token is absent sends no request, returns its
\* failure result and changes nothing in the manager.
C1_NoRequestWithoutToken ==
    [][(last'.op \in AuthOps /\ Falsy(access_token)) =>
          /\ last'.requests = 0
          /\ last'.outcome = "none"
          /\ last'.result = FailureResult(last'.op)
          /\ UNCHANGED mgr]_vars

\* C1 witness: sync was called on a manager that never logged in
C1_Witness ==
    /\ last.op = "sync"
    /\ last.token_before = None
    /\ last.requests = 0
    /\ opened = 0

\* C2: when main() has terminated, every HTTP session it created has been
\* closed exactly once, and none is left open.
C2_SessionClosedAtExit ==
    mainpc \in {"done", "raised"} => (session # "open" /\ closes = opened)

\* C3: a logout on a manager holding a token ends with token, user id and
\* device id absent and the HTTP session closed, whatever the request did,
\* and raises nothing; a logout without a token changes nothing.
C3_LogoutAlwaysClears ==
    [][last'.op = "logout" =>
          /\ access_token' = None \/ (Falsy(access_token) /\ UNCHANGED mgr)
          /\ ~Falsy(access_token) =>
                /\ user_id' = None
                /\ device_id' = None
                /\ session' = "closed"
                /\ closes' = closes + 1
          /\ ~last'.raised]_vars

\* C3 witness: the logout request raised and the manager is cleared and closed
C3_Witness ==
    /\ last.op = "logout"
    /\ last.outcome = "exception"
    /\ ~Falsy(last.token_before)
    /\ access_token = None
    /\ session = "closed"

\* C4 as stated: after a login that reports failure the token is absent,
\* whatever the state before the call.
C4_FailedLoginUnauthenticated ==
    (last.op = "login" /\ last.result = FALSE) => Falsy(access_token)

\* C4 amended: a login that reports failure leaves token, user id and device
\* id as they were before the call and sends exactly one request.
C4_FailedLoginKeepsState ==
    [][(last'.op = "login" /\ last'.result = FALSE) =>
          /\ UNCHANGED <<access_token, user_id, device_id>>
          /\ last'.requests = 1]_vars

\* C4 witness: a login failed on a manager that held a token, which it keeps
C4_Witness ==
    /\ last.op = "login"
    /\ last.result = FALSE
    /\ last.outcome = "http_error"
    /\ last.token_before = "syt_A"
    /\ access_token = "syt_A"

\* C5: whenever login reports success the token is present afterwards.
C5_LoginSuccessHasToken ==
    (last.op = "login" /\ last.result = TRUE) => ~Falsy(access_token)

----------------------------------------------------------------------------
(* The projection of one room, step by step *)

\* Sequences of at most n elements of S
BoundedSeqs(S, n) == UNION {[1..k -> S] : k \in 0..n}

StateEventKinds ==
    {Event("m.room.name", Has("A")), Event("m.room.name", Has("B")),
     Event("m.room.name", Missing),
     Event("m.room.topic", Has("A")), Event("m.room.topic", Has("B")),
     Event("m.room.topic", Missing),
     Event("m.room.canonical_alias", Has("#a:hs")), Event("m.room.canonical_alias", Has("#b:hs")),
     Event("m.room.canonical_alias", Missing),
     Event("m.room.encryption", Missing),
     Event("m.room.member", Missing),
     Event("m.room.create", Missing)}

TimelineKinds ==
    {Event("m.room.message", Has(Body(2, 0))),
     Event("m.room.message", Has(Body(BodyLimit - 1, 1))),
     Event("m.room.message", Has(Body(BodyLimit, 2))),
     Event("m.room.message", Has(Body(BodyLimit + 1, 3))),
     Event("m.room.message", Has(Body(BodyLimit + 20, 4))),
     Event("m.room.message", Missing),
     Event("m.reaction", Missing)}

\* A members response of n records; every third one has no display name
Chunk(n) ==
    [i \in 1..n |-> Member(IF i % 3 = 0 THEN None ELSE "name" \o ToString(i),
                           "@u" \o ToString(i) \o ":hs")]

ResolverResponses == {Ok(Chunk(n)) : n \in 0..MaxMembers} \cup {HttpError, TransportError}

Input(state, timeline, resp) ==
    [room |-> Fragment("!a:hs", state, timeline), resolved |-> resp]

\* Inputs that vary the state events, the timeline, and the members in turn
FoldInputs ==
    {Input(st, <<>>, HttpError) : st \in BoundedSeqs(StateEventKinds, MaxStateEvents)}
TimelineInputs ==
    {Input(<<>>, tl, HttpError) : tl \in BoundedSeqs(TimelineKinds, MaxTimeline)}
MemberInputs ==
    {Input(st, <<Event("m.room.message", Has(Body(2, 0)))>>, r) :
        st \in BoundedSeqs({Event("m.room.member", Missing), Event("m.room.create", Missing)},
                           MaxStateEvents),
        r \in ResolverResponses}
ProjectInputs == FoldInputs \cup TimelineInputs \cup MemberInputs

\* The top of the loop body: state_events fetched, the accumulators at their defaults
InitProject ==
    /\ InitMgr
    /\ GlpiIdle
    /\ mainpc = "api"
    /\ \E in \in ProjectInputs : room = in.room /\ resolved = in.resolved
    /\ ppc = "fold"
    /\ acc = InitAcc
    /\ idx = 0
    /\ tpos = 0
    /\ last_message = DefaultLastMessage
    /\ room_info = None

\* for event in state_events: one iteration
ProjFold ==
    /\ ppc = "fold"
    /\ idx < Len(room.state)
    /\ acc' = StateEventStep(acc, room.state[idx + 1])
    /\ idx' = idx + 1
    /\ UNCHANGED <<room, resolved, ppc, tpos, last_message, room_info>>
    /\ UNCHANGED <<mgr, last, mainpc, glpi>>

\* the fold is over: timeline_events fetched, last_message at its default
ProjStartScan ==
    /\ ppc = "fold"
    /\ idx = Len(room.state)
    /\ ppc' = "scan"
    /\ tpos' = Len(room.timeline)
    /\ last_message' = DefaultLastMessage
    /\ UNCHANGED <<room, resolved, acc, idx, room_info>>
    /\ UNCHANGED <<mgr, last, mainpc, glpi>>

\* for event in reversed(timeline_events): one iteration; tpos stays at the
\* event the loop breaks on
ProjScan ==
    /\ ppc = "scan"
    /\ tpos > 0
    /\ LET s == TimelineStep(last_message, room.timeline[tpos])
       IN  /\ last_message' = s.last_message
           /\ IF s.brk
              THEN ppc' = "members" /\ tpos' = tpos
              ELSE ppc' = ppc /\ tpos' = tpos - 1
    /\ UNCHANGED <<room, resolved, acc, idx, room_info>>
    /\ UNCHANGED <<mgr, last, mainpc, glpi>>

\* the reversed timeline is exhausted
ProjEndScan ==
    /\ ppc = "scan"
    /\ tpos = 0
    /\ ppc' = "members"
    /\ UNCHANGED <<room, resolved, acc, idx, tpos, last_message, room_info>>
    /\ UNCHANGED <<mgr, last, mainpc, glpi>>

\* members = await self.get_room_members(room_id) and the room_info dict
ProjMembers ==
    /\ ppc = "members"
    /\ room_info' = RoomInfo(room.room_id, acc, last_message, MembersOf(resolved))
    /\ ppc' = "done"
    /\ UNCHANGED <<room, resolved, acc, idx, tpos, last_message>>
    /\ UNCHANGED <<mgr, last, mainpc, glpi>>

NextProject ==
    \/ ProjFold
    \/ ProjStartScan
    \/ ProjScan
    \/ ProjEndScan
    \/ ProjMembers

SpecProject ==
    InitProject /\ [][NextProject]_vars

----------------------------------------------------------------------------
(* Projection claims *)

Max(S) == CHOOSE m \in S : \A n \in S : n <= m

\* The positions of the events of a type, and of those that carry the key
OfType(events, type) == {i \in 1..Len(events) : events[i].type = type}
Carrying(events, type) == {i \in OfType(events, type) : events[i].content.present}

\* The value of the last event of a type, the default when that event lacks
\* the key or when there is no such event
LastOfType(events, type, default) ==
    IF OfType(events, type) = {} THEN default
    ELSE Get(events[Max(OfType(events, type))].content, default)

\* The value of the last event of a type that carries the key
LastCarried(events, type, default) ==
    IF Carrying(events, type) = {} THEN default
    ELSE events[Max(Carrying(events, type))].content.val

\* C6 as stated: name, topic and alias of the summary are those of the last
\* event of their type, whatever came before, and the default without one.
C6_LastEventWins ==
    ppc = "done" =>
        /\ room_info.name = LastOfType(room.state, "m.room.name", DefaultName)
        /\ room_info.topic = LastOfType(room.state, "m.room.topic", DefaultTopic)
        /\ room_info.canonical_alias =
              LastOfType(room.state, "m.room.canonical_alias", DefaultAlias)

\* C6 amended: after every step of the fold and in the summary, name, topic
\* and alias are those of the last event of their type that carries the
\* field; an event of the type without the field changes nothing; the
\* default stands when no event of the type carries the field.
C6_LastCarriedWins ==
    LET seen == SubSeq(room.state, 1, idx)
    IN  /\ ppc # "idle" =>
            /\ acc.room_name = LastCarried(seen, "m.room.name", DefaultName)
            /\ acc.room_topic = LastCarried(seen, "m.room.topic", DefaultTopic)
            /\ acc.room_alias = LastCarried(seen, "m.room.canonical_alias", DefaultAlias)
        /\ ppc = "done" =>
            /\ room_info.name = LastCarried(room.state, "m.room.name", DefaultName)
            /\ room_info.topic = LastCarried(room.state, "m.room.topic", DefaultTopic)
            /\ room_info.canonical_alias =
                  LastCarried(room.state, "m.room.canonical_alias", DefaultAlias)

\* C6 witness: two naming events with another type between them, the second wins
C6_Witness ==
    /\ ppc = "done"
    /\ room.state = <<Event("m.room.name", Has("A")), Event("m.room.encryption", Missing),
                      Event("m.room.name", Has("B"))>>
    /\ room_info.name = "B"
    /\ room_info.topic = DefaultTopic

\* C7 as stated: last_message comes from the message-type event closest to
\* the end, where the reverse scan stops; without a message-type event it is
\* the default.
C7_FromClosestMessage ==
    ppc = "done" =>
        IF OfType(room.timeline, "m.room.message") = {}
        THEN room_info.last_message = DefaultLastMessage
        ELSE LET n == Max(OfType(room.timeline, "m.room.message"))
             IN  /\ tpos \in {0, n}
                 /\ room_info.last_message =
                       IF room.timeline[n].content.present
                       THEN Truncate(room.timeline[n].content.val)
                       ELSE DefaultLastMessage

\* C7 amended: the reverse scan stops at the message-type event closest to
\* the end that carries a body, and last_message is that body, truncated;
\* message-type events without a body are passed over; when no message-type
\* event carries a body the scan runs out and last_message is the default.
C7_StopsAtClosestBody ==
    ppc = "done" =>
        IF Carrying(room.timeline, "m.room.message") = {}
        THEN tpos = 0 /\ room_info.last_message = DefaultLastMessage
        ELSE LET n == Max(Carrying(room.timeline, "m.room.message"))
             IN  /\ tpos = n
                 /\ room_info.last_message = Truncate(room.timeline[n].content.val)

\* C7 witness: the last message has no body and the one before it is used
C7_Witness ==
    /\ ppc = "done"
    /\ room.timeline = <<Event("m.room.message", Has(Body(BodyLimit, 2))),
                         Event("m.room.message", Has(Body(2, 0))),
                         Event("m.room.message", Missing)>>
    /\ tpos = 2
    /\ room_info.last_message = Body(2, 0)

\* The members get_room_members returned for the room
Resolved == MembersOf(resolved)

\* C8: with a non-empty member list, member_count is its length and members
\* its first ten entries in order; with an empty one, member_count is the
\* number of m.room.member state events and members is empty.
C8_MemberPrecedence ==
    ppc = "done" =>
        IF Len(Resolved) > 0
        THEN /\ room_info.member_count = Len(Resolved)
             /\ Len(room_info.members) = (IF Len(Resolved) < 10 THEN Len(Resolved) ELSE 10)
             /\ \A i \in 1..Len(room_info.members) : room_info.members[i] = Resolved[i]
        ELSE /\ room_info.member_count = Cardinality(OfType(room.state, "m.room.member"))
             /\ room_info.members = <<>>

\* C8 witness: eleven members resolved while the fragment counts two membership events
C8_Witness ==
    /\ ppc = "done"
    /\ Len(Resolved) = 11
    /\ acc.member_count = 2
    /\ room_info.member_count = 11
    /\ Len(room_info.members) = 10

\* C9: after every step of the fold and in the summary, is_encrypted is true
\* exactly when an m.room.encryption event has been folded; so it is false
\* for a sequence without one and, once true, it stays true.
C9_EncryptedIffSeen ==
    /\ ppc # "idle" =>
          (acc.is_encrypted <=> \E i \in 1..idx : room.state[i].type = "m.room.encryption")
    /\ ppc = "done" =>
          (room_info.is_encrypted <=> OfType(room.state, "m.room.encryption") # {})

\* C9 witness: an encryption event followed by events of other types
C9_Witness ==
    /\ ppc = "done"
    /\ Len(room.state) = 3
    /\ room.state[1].type = "m.room.encryption"
    /\ room.state[2].type = "m.room.name"
    /\ room.state[3].type = "m.room.create"
    /\ room_info.is_encrypted

\* C10: a selected body of at most 100 code points is last_message as it
\* is; a longer one gives its first 100 code points followed by "...".
C10_TruncationBoundary ==
    (ppc = "done" /\ tpos > 0) =>
        LET body == room.timeline[tpos].content.val
        IN  /\ Len(body) <= 100 => room_info.last_message = body
            /\ Len(body) >= 101 =>
                  /\ Len(room_info.last_message) = 103
                  /\ \A i \in 1..100 : room_info.last_message[i] = body[i]
                  /\ \A i \in 101..103 : room_info.last_message[i] = 46

\* C10 witness: a body of 101 code points was cut to 100 and the marker
C10_Witness ==
    /\ ppc = "done"
    /\ tpos > 0
    /\ Len(room.timeline[tpos].content.val) = 101
    /\ Len(room_info.last_message) = 103

----------------------------------------------------------------------------
(* Claims about a whole run of get_user_chats *)

\* The rooms the server had for the last call of get_user_chats
LastJoined == JoinedRooms(last.sresp)

SummaryFields ==
    {"room_id", "name", "canonical_alias", "member_count", "is_encrypted", "topic",
     "last_message", "members"}

\* C11: get_user_chats returns the empty list when there is no token, when
\* the sync request fails or brings nothing, and when a pass of the loop
\* raises; what it returns is empty or has one summary for every joined
\* room, never some of them only.
C11_AllOrNothing ==
    last.op = "get_user_chats" =>
        /\ (\/ Falsy(last.token_before)
            \/ last.outcome # "ok"
            \/ last.sresp.body.empty
            \/ FirstRaising(LastJoined) > 0) => last.result = <<>>
        /\ Len(last.result) > 0 => Len(last.result) = Len(LastJoined)

\* C11 witness: the second of two rooms raised after the first was reduced
\* and its members fetched, and the call returned nothing
C11_Witness ==
    /\ last.op = "get_user_chats"
    /\ last.outcome = "ok"
    /\ Len(LastJoined) = 2
    /\ FirstRaising(LastJoined) = 2
    /\ last.requests = 2
    /\ last.result = <<>>

\* C12: get_room_members answers a request that fails with the empty list
\* and raises nothing; in a run of get_user_chats that reduces every room, a
\* room whose members request failed still has its summary, with
\* member_count the number of its m.room.member events and no members, and
\* every other room has the members of its own response.
C12_MemberFailureDemoted ==
    /\ ~last.raised
    /\ (last.op = "get_room_members" /\ last.outcome # "ok") => last.result = <<>>
    /\ (last.op = "get_user_chats" /\ last.outcome = "ok" /\ FirstRaising(LastJoined) = 0) =>
          /\ Len(last.result) = Len(LastJoined)
          /\ \A i \in 1..Len(LastJoined) :
                /\ last.result[i].room_id = LastJoined[i].room_id
                /\ last.mresp[i].kind # "ok" =>
                      /\ last.result[i].member_count =
                            Cardinality(OfType(LastJoined[i].state, "m.room.member"))
                      /\ last.result[i].members = <<>>
                /\ (last.mresp[i].kind = "ok" /\ Len(last.mresp[i].body) > 0) =>
                      /\ last.result[i].member_count = Len(last.mresp[i].body)
                      /\ Len(last.result[i].members) = Len(last.mresp[i].body)

\* C12 witness: the members request raised for the first room and succeeded
\* for the second; both summaries are there
C12_Witness ==
    /\ last.op = "get_user_chats"
    /\ last.outcome = "ok"
    /\ Len(LastJoined) = 2
    /\ last.mresp[1].kind = "exception"
    /\ last.mresp[2].kind = "ok"
    /\ Len(last.result) = 2
    /\ last.result[1].room_id = "!b:hs"
    /\ last.result[1].member_count = 2
    /\ last.result[1].members = <<>>
    /\ last.result[2].member_count = 2
    /\ Len(last.result[2].members) = 2

\* C13: a run whose sync request succeeds returns one summary for every
\* joined room, in the order of the payload, each with its own room_id, the
\* members of its own response and all of its fields.
C13_OneSummaryPerRoom ==
    (last.op = "get_user_chats" /\ last.outcome = "ok") =>
        /\ Len(last.result) = Len(LastJoined)
        /\ \A i \in 1..Len(LastJoined) :
              /\ DOMAIN last.result[i] = SummaryFields
              /\ last.result[i].room_id = LastJoined[i].room_id
              /\ Len(last.result[i].members) =
                    Min(MembersPreview, Len(MembersOf(last.mresp[i])))
              /\ \A j \in 1..Len(last.result[i].members) :
                    last.result[i].members[j] = MembersOf(last.mresp[i])[j]

----------------------------------------------------------------------------
(* glpi-bot.py: the functions called one by one *)

InitGlpi ==
    /\ InitMgr /\ mainpc = "api" /\ ProjIdle
    /\ gpc = "api"
    /\ session_token = None
    /\ categories = EmptyList
    /\ sent = <<>>
    /\ glast = GlpiCall("init", None, RequestFails, None, <<>>, FALSE)

CallInitGlpiSession ==
    /\ Len(sent) < MaxSent
    /\ \E resp \in InitSessionResponses : InitGlpiSession(resp)
    /\ session_token' = glast'.result
    /\ UNCHANGED <<gpc, categories, matrix>>

\* kill_glpi_session with its three arguments, as interactive_create_ticket
\* calls it, or with none, as main calls it
CallKillGlpiSession ==
    /\ Len(sent) < MaxSent
    /\ \E args \in {<<>>, <<BaseUrl, AppToken, session_token>>} :
        \E resp \in KillSessionResponses : KillGlpiSession(args, resp)
    /\ UNCHANGED <<gpc, session_token, categories, matrix>>

CallCreateTicket ==
    /\ Len(sent) < MaxSent
    /\ \E ticket_data \in TicketDatas :
        \E resp \in TicketResponses :
            CreateTicket("create_ticket", session_token, ticket_data, resp)
    /\ UNCHANGED <<gpc, session_token, categories, matrix>>

CallCreateTicketSimple ==
    /\ Len(sent) < MaxSent
    /\ \E resp \in TicketResponses : CreateTicketSimple(session_token, resp)
    /\ UNCHANGED <<gpc, session_token, categories, matrix>>

CallGetCategories ==
    /\ Len(sent) < MaxSent
    /\ \E resp \in ListResponses : GetList("get_categories", "ITILCategory", session_token, resp)
    /\ UNCHANGED <<gpc, session_token, categories, matrix>>

CallGetTickets ==
    /\ Len(sent) < MaxSent
    /\ \E resp \in ListResponses : GetList("get_tickets", "Ticket", session_token, resp)
    /\ UNCHANGED <<gpc, session_token, categories, matrix>>

NextGlpi ==
    \/ CallInitGlpiSession
    \/ CallKillGlpiSession
    \/ CallCreateTicket
    \/ CallCreateTicketSimple
    \/ CallGetCategories
    \/ CallGetTickets

SpecGlpi == InitGlpi /\ [][NextGlpi]_vars

----------------------------------------------------------------------------
(* glpi-bot.py: main() *)

InitGlpiMain ==
    /\ InitMgr /\ mainpc = "api" /\ ProjIdle
    /\ gpc = "init"
    /\ session_token = None
    /\ categories = EmptyList
    /\ sent = <<>>
    /\ glast = GlpiCall("init", None, RequestFails, None, <<>>, FALSE)

\* session_token = init_glpi_session(...); return when there is none
GMainInit ==
    /\ gpc = "init"
    /\ \E resp \in InitSessionResponses : InitGlpiSession(resp)
    /\ session_token' = glast'.result
    /\ gpc' = IF Falsy(glast'.result) THEN "done" ELSE "categories"
    /\ UNCHANGED <<categories, matrix>>

\* categories = get_categories(...); display_categories(categories)
GMainCategories ==
    /\ gpc = "categories"
    /\ \E resp \in ListResponses : GetList("get_categories", "ITILCategory", session_token, resp)
    /\ categories' = glast'.result
    /\ gpc' = IF DisplayRaises(glast'.result) THEN "finally_raising" ELSE "create"
    /\ UNCHANGED <<session_token, matrix>>

\* created_ticket = create_ticket(...) on the test ticket, which has name and content
GMainCreate ==
    /\ gpc = "create"
    /\ \E resp \in TicketResponses :
        CreateTicket("create_ticket", session_token, TicketData(TRUE, TRUE), resp)
    /\ gpc' = "create_simple"
    /\ UNCHANGED <<session_token, categories, matrix>>

\* simple_ticket = create_ticket_simple(...)
GMainCreateSimple ==
    /\ gpc = "create_simple"
    /\ \E resp \in TicketResponses : CreateTicketSimple(session_token, resp)
    /\ gpc' = "tickets"
    /\ UNCHANGED <<session_token, categories, matrix>>

\* tickets = get_tickets(...); display_tickets_simple(tickets); if categories:
GMainTickets ==
    /\ gpc = "tickets"
    /\ \E resp \in ListResponses : GetList("get_tickets", "Ticket", session_token, resp)
    /\ gpc' = IF DisplayRaises(glast'.result) THEN "finally_raising"
              ELSE IF categories.n > 0 THEN "create_category"
              ELSE "finally"
    /\ UNCHANGED <<session_token, categories, matrix>>

\* category_ticket = create_ticket_simple(..., category_id=first_category_id, ...)
GMainCreateCategory ==
    /\ gpc = "create_category"
    /\ \E resp \in TicketResponses : CreateTicketSimple(session_token, resp)
    /\ gpc' = "finally"
    /\ UNCHANGED <<session_token, categories, matrix>>

\* finally: kill_glpi_session(), called without arguments
GMainFinally ==
    /\ gpc \in {"finally", "finally_raising"}
    /\ \E resp \in KillSessionResponses : KillGlpiSession(<<>>, resp)
    /\ gpc' = IF gpc = "finally" /\ ~glast'.raised THEN "done" ELSE "raised"
    /\ UNCHANGED <<session_token, categories, matrix>>

NextGlpiMain ==
    \/ GMainInit
    \/ GMainCategories
    \/ GMainCreate
    \/ GMainCreateSimple
    \/ GMainTickets
    \/ GMainCreateCategory
    \/ GMainFinally

SpecGlpiMain == InitGlpiMain /\ [][NextGlpiMain]_vars

----------------------------------------------------------------------------
(* Claims about glpi-bot.py *)

\* C14: once init_glpi_session has given main() a session token, main ends
\* only after a killSession request with that session's base URL, app token
\* and session token was sent, and its finally block raises nothing.
C14_SessionKilledAtExit ==
    (gpc \in {"done", "raised"} /\ ~Falsy(session_token)) =>
        /\ \E i \in 1..Len(sent) : sent[i] = Request("GET", "killSession", session_token)
        /\ ~(glast.op = "kill_glpi_session" /\ glast.raised)

\* C15: create_ticket returns None and sends nothing for a ticket_data
\* without 'name' or without 'content'; with both it sends exactly one POST,
\* and it returns the created ticket when the status is 201 and nothing
\* raised, None in every other case; create_ticket_simple always has both.
C15_CreateTicketValidatesFirst ==
    glast.op \in {"create_ticket", "create_ticket_simple"} =>
        /\ ~glast.raised
        /\ (~glast.args.has_name \/ ~glast.args.has_content) =>
              /\ glast.sent = <<>>
              /\ glast.result = NoJson
        /\ (glast.args.has_name /\ glast.args.has_content) =>
              /\ Len(glast.sent) = 1
              /\ glast.sent[1].method = "POST"
              /\ glast.sent[1].endpoint = "Ticket"
              /\ IF /\ glast.resp.kind = "response"
                    /\ glast.resp.status_code = 201
                    /\ glast.resp.shape = "object"
                 THEN glast.result = Json("object", glast.resp.n)
                 ELSE glast.result = NoJson

\* C15 witness: a ticket_data with 'name' but without 'content' was refused
\* before any request, although the server would have answered 201
C15_Witness ==
    /\ glast.op = "create_ticket"
    /\ glast.args = TicketData(TRUE, FALSE)
    /\ glast.resp.status_code = 201
    /\ glast.sent = <<>>
    /\ sent = <<>>
    /\ glast.result = NoJson

====
